---- MODULE Spec2Model ----
(***************************************************************************)
(* Parallel marching squares (tema1_par.c): N worker threads run           *)
(* rescale -> sample_grid -> march, separated by a pthread barrier of      *)
(* width N, over a shared working image, a shared grid and a read-only     *)
(* table of 16 contour tiles.                                              *)
(*                                                                         *)
(* Scaling.  The program samples every STEP = 8 pixels and rescales to     *)
(* 2048 x 2048.  The model keeps every index expression of the source but  *)
(* runs it with a stride of 2 and a target of 8 x 8, so that a rescaled    *)
(* image still has several rows per worker and p = q = 4 sample rows.      *)
(***************************************************************************)
EXTENDS Integers, Sequences, FiniteSets, TLC

\* ---- bounds -------------------------------------------------------------
MaxN == 3          \* worker counts 1..MaxN (argv[3])
STEP == 2          \* sampling stride (8 in the program, scaled)
RESCALE_X == 8     \* target resolution (2048 in the program, scaled)
RESCALE_Y == 8

\* ---- program constants --------------------------------------------------
SIGMA == 200
CONTOUR_CONFIG_COUNT == 16

\* ---- pixels -------------------------------------------------------------
\* ppm_pixel: three 8-bit channels <<red, green, blue>>
Black == <<0, 0, 0>>
White == <<255, 255, 255>>
Edge1 == <<200, 200, 202>>   \* 602 / 3 = 200, not above SIGMA
Edge0 == <<201, 201, 201>>   \* 201, above SIGMA

\* memory outside every buffer, as an out-of-bounds read may see it
WildPixels == {Black, White}

\* contents of freshly malloc'ed memory: grid bytes and rescaled pixels
GarbageBytes == {0, 3}
GarbagePixels == {Black, White}

\* a threshold that sends the value SIGMA itself to 0
Classify_strict(px) ==
    LET curr_color == ((px[1] + px[2] + px[3]) \div 3) % 256
    IN  IF curr_color >= SIGMA THEN 0 ELSE 1

\* curr_color = (red + green + blue) / 3, stored in an unsigned char;
\* the cell is 0 when curr_color > SIGMA and 1 otherwise
Classify(px) ==
    LET curr_color == ((px[1] + px[2] + px[3]) \div 3) % 256
    IN  IF curr_color > SIGMA THEN 0 ELSE 1

\* ---- inputs -------------------------------------------------------------
Patterns == {"black", "white", "lastcol", "lastrow", "checker", "origin"}

\* pixel (r, c) of an x-by-y input image of the given pattern
Shade(pat, r, c, x, y) ==
    CASE pat = "black"   -> Black
      [] pat = "white"   -> White
      [] pat = "lastcol" -> IF c = y - 1 THEN Black ELSE White
      [] pat = "lastrow" -> IF r = x - 1 THEN Edge1 ELSE Edge0
      [] pat = "checker" -> IF ((r \div STEP) + (c \div STEP)) % 2 = 1
                            THEN Black ELSE White
      [] pat = "origin"  -> IF r = 0 /\ c = 0 THEN Edge1 ELSE Edge0

\* image sizes <<x, y>> read by read_ppm: square, oblong, with a remainder,
\* long and thin, and two that exceed the target resolution
Dims == {<<STEP, STEP>>, <<2 * STEP, 2 * STEP>>,
         <<2 * STEP, 3 * STEP>>, <<3 * STEP, 2 * STEP>>,
         <<2 * STEP + 1, 2 * STEP + 1>>, <<3 * STEP, 3 * STEP>>,
         <<(STEP + 1) * STEP, STEP>>,
         <<RESCALE_X + 1, STEP>>, <<2 * STEP, RESCALE_Y + 2>>}

MakeImage(x, y, pat) ==
    [x |-> x, y |-> y,
     data |-> [o \in 0 .. (x * y - 1) |-> Shade(pat, o \div y, o % y, x, y)]]

\* ---- the contour tile table ---------------------------------------------
\* init_contour_map: 16 tiles of STEP x STEP pixels read from ./contours;
\* tile k holds pixel <<k, index, 7>> at every index, so tiles and positions
\* inside a tile are all distinguishable
contour_map ==
    [k \in 0 .. (CONTOUR_CONFIG_COUNT - 1) |->
        [x |-> STEP, y |-> STEP,
         data |-> [o \in 0 .. (STEP * STEP - 1) |-> <<k, o, 7>>]]]

\* what a lookup past the end of the table may yield when it does not fault
WildTile(px) ==
    [x |-> STEP, y |-> STEP, data |-> [o \in 0 .. (STEP * STEP - 1) |-> px]]

\* ---- state --------------------------------------------------------------
VARIABLES
    N,            \* worker count, barrier width
    image,        \* the source image (read_ppm)
    new_image,    \* the buffer of allocate_rescale, when there is one
    scaled_image, \* which buffer is the working image: "image" or "new_image"
    grid,         \* grid[i][j], (p+1) x (q+1) bytes
    pc,           \* position of every worker in apeleaza
    li, lj,       \* loop counters i and j of every worker
    count,        \* workers waiting at the barrier
    mainpc, ci,   \* position of main and its create-loop counter
    crashed,      \* the process was killed by a memory fault
    wGrid,        \* per grid cell: workers that wrote it in sample_grid
    wRescale,     \* per working pixel: workers that wrote it in rescale_image
    wMarch,       \* per working pixel: workers that wrote it in march
    in0           \* the inputs: source image, initial memory contents and
                  \* the malloc that failed

vars == <<N, image, new_image, scaled_image, grid, pc, li, lj, count,
          mainpc, ci, crashed, wGrid, wRescale, wMarch, in0>>

Threads == 0 .. (N - 1)

\* the working image, im->scaled_image
Work == IF scaled_image = "image" THEN image ELSE new_image

P == Work.x \div STEP
Q == Work.y \div STEP

NoImage == [x |-> 0, y |-> 0, data |-> [o \in {} |-> Black]]

\* allocate_rescale: header set to the target size, pixels not initialised
allocate_rescale(gp) ==
    [x |-> RESCALE_X, y |-> RESCALE_Y,
     data |-> [o \in 0 .. (RESCALE_X * RESCALE_Y - 1) |-> gp]]

\* allocate_grid: p + 1 rows of q + 1 bytes, not initialised
allocate_grid(img, gb) ==
    [i \in 0 .. (img.x \div STEP) |-> [j \in 0 .. (img.y \div STEP) |-> gb]]

\* the malloc calls of the pipeline, in the order main reaches them, and
\* those whose result is tested (lines 44, 229, 269 and 278)
AllocSites == {"imagine", "threads", "map", "header", "data", "grid", "row"}
CheckedSites == {"map", "header", "grid", "row"}

\* a condition that keeps the source when either dimension fits
no_rescale_either(img) == img.x <= RESCALE_X \/ img.y <= RESCALE_Y

\* line 312: the source is used as it is
no_rescale(img) == img.x <= RESCALE_X /\ img.y <= RESCALE_Y

\* main, lines 295-322: the state when the create loop begins, or the exit
\* with "Unable to allocate memory" when a tested malloc returned NULL;
\* fl is the malloc that returned NULL, if any
Init ==
    \E n \in 1 .. MaxN, d \in Dims, pat \in Patterns,
       gb \in GarbageBytes, gp \in GarbagePixels,
       fl \in AllocSites \cup {"none"} :
        LET src  == MakeImage(d[1], d[2], pat)
            same == no_rescale(src)
            work == IF same THEN src ELSE allocate_rescale(gp)
        IN  /\ (same => gp = Black /\ fl \notin {"header", "data"})
            /\ (fl # "none" => pat = "black" /\ gb = 0 /\ gp = Black)
            /\ N = n
            /\ image = src
            /\ new_image = IF same THEN NoImage ELSE work
            /\ scaled_image = IF same THEN "image" ELSE "new_image"
            /\ grid = allocate_grid(work, gb)
            /\ pc = [t \in 0 .. (n - 1) |-> "idle"]
            /\ li = [t \in 0 .. (n - 1) |-> 0]
            /\ lj = [t \in 0 .. (n - 1) |-> 0]
            /\ count = 0
            /\ mainpc = IF fl \in CheckedSites THEN "aborted" ELSE "create"
            /\ ci = 0
            /\ crashed = FALSE
            /\ wGrid = [i \in 0 .. (work.x \div STEP) |->
                          [j \in 0 .. (work.y \div STEP) |-> {}]]
            /\ wRescale = [o \in 0 .. (work.x * work.y - 1) |-> {}]
            /\ wMarch = [o \in 0 .. (work.x * work.y - 1) |-> {}]
            /\ in0 = [image |-> src, gb |-> gb, gp |-> gp, failed |-> fl]

\* ---- helpers of the workers ----------------------------------------------
\* start and end of worker t's share of an extent: t * (extent / N)
Start(t, extent) == t * (extent \div N)

\* a share that stops one short
End_short(t, extent) == (t + 1) * (extent \div N) - 1

End(t, extent) == (t + 1) * (extent \div N)

\* a store through im->image->data, whatever the working image is
SetWork_source(data) ==
    image' = [image EXCEPT !.data = data] /\ UNCHANGED new_image

\* a store through im->scaled_image->data
SetWork(data) ==
    IF scaled_image = "image"
    THEN image' = [image EXCEPT !.data = data] /\ UNCHANGED new_image
    ELSE new_image' = [new_image EXCEPT !.data = data] /\ UNCHANGED image

\* sample_bicubic(image, u, v) with u = i / (x' - 1), v = j / (y' - 1):
\* the source pixel the normalised coordinates fall on
sample_bicubic(img, i, j, nx, ny) ==
    LET r == (i * (img.x - 1)) \div (nx - 1)
        c == (j * (img.y - 1)) \div (ny - 1)
    IN  img.data[r * img.y + c]

\* update_image(image, contour, x, y): the pixel buffer after the copy
update_image(img, contour, x, y) ==
    LET Idx(i, j) == (x + i) * img.y + y + j
        Cells == (0 .. (contour.x - 1)) \X (0 .. (contour.y - 1))
    IN  [o \in DOMAIN img.data |->
            IF \E c \in Cells : Idx(c[1], c[2]) = o
            THEN LET c == CHOOSE c \in Cells : Idx(c[1], c[2]) = o
                 IN  contour.data[contour.x * c[1] + c[2]]
            ELSE img.data[o]]

\* the offsets update_image stores to
TileOffsets(img, contour, x, y) ==
    {(x + i) * img.y + y + j : i \in 0 .. (contour.x - 1),
                               j \in 0 .. (contour.y - 1)}

\* the index with the weights of the two right-hand corners exchanged
ConfigIndex_swapped(g, i, j) ==
    (8 * g[i][j] + 2 * g[i][j + 1] + 4 * g[i + 1][j + 1] + 1 * g[i + 1][j])
        % 256

\* unsigned char k = 8 * grid[i][j] + 4 * grid[i][j + 1]
\*                 + 2 * grid[i + 1][j + 1] + 1 * grid[i + 1][j]
ConfigIndex(g, i, j) ==
    (8 * g[i][j] + 4 * g[i][j + 1] + 2 * g[i + 1][j + 1] + 1 * g[i + 1][j])
        % 256

\* a row loop that runs to the last row whatever the share
InRows_all(t, i) == i < P

\* the loops of worker t that still have an iteration to run
InRows(t, i) == i < End(t, P)
InBulk(t, i, j) == i < End(t, P) /\ j < Q
InCols(t, j) == j < End(t, Q)
InRescale(t, i) == i < End(t, new_image.x) /\ i < new_image.x

\* where worker t goes when it has run sample_grid's bulk and corner,
\* its right-edge loop, and its march loop
AfterCorner(t) ==
    IF InRows(t, Start(t, P)) THEN "right"
    ELSE IF InCols(t, Start(t, Q)) THEN "bottom" ELSE "wait2"
AfterRight(t) == IF InCols(t, Start(t, Q)) THEN "bottom" ELSE "wait2"

\* pthread_barrier_wait by the last of N workers: every blocked worker and
\* the caller leave the barrier for their next stage
AfterBarrier(s, t) ==
    CASE s \in {"wait1", "blocked1"} -> "bulk"
      [] s \in {"wait2", "blocked2"} ->
            IF InBulk(t, Start(t, P), 0) THEN "march" ELSE "wait3"
      [] s \in {"wait3", "blocked3"} -> "done"
Blocked(s) == s \in {"blocked1", "blocked2", "blocked3"}
Block(s) ==
    CASE s = "wait1" -> "blocked1"
      [] s = "wait2" -> "blocked2"
      [] s = "wait3" -> "blocked3"

UNCH_ghost == UNCHANGED <<wGrid, wRescale, wMarch, in0>>
UNCH_main == UNCHANGED <<N, mainpc, ci>>
UNCH_bufs == UNCHANGED <<image, new_image, scaled_image, grid>>

\* ---- main ---------------------------------------------------------------
\* lines 324-335: fill imagine[i] and pthread_create worker i
main_create ==
    /\ ~crashed /\ mainpc = "create" /\ ci < N
    /\ in0.failed \notin {"imagine", "threads"}
    /\ pc' = [pc EXCEPT ![ci] = "start"]
    /\ ci' = ci + 1
    /\ mainpc' = IF ci + 1 < N THEN "create" ELSE "join"
    /\ UNCHANGED <<N, li, lj, count, crashed>>
    /\ UNCH_bufs /\ UNCH_ghost

\* lines 337-343: every pthread_join has returned, the image is written out
main_join ==
    /\ ~crashed /\ mainpc = "join"
    /\ \A t \in Threads : pc[t] = "done"
    /\ mainpc' = "done"
    /\ UNCHANGED <<N, ci, pc, li, lj, count, crashed>>
    /\ UNCH_bufs /\ UNCH_ghost

\* ---- apeleaza -----------------------------------------------------------
\* lines 249-253: rescale only when the working image is not the source
apeleaza(t) ==
    /\ ~crashed /\ pc[t] = "start"
    /\ IF scaled_image # "image" /\ InRescale(t, Start(t, new_image.x))
       THEN /\ pc' = [pc EXCEPT ![t] = "rescale"]
            /\ li' = [li EXCEPT ![t] = Start(t, new_image.x)]
       ELSE /\ pc' = [pc EXCEPT ![t] = "wait1"]
            /\ UNCHANGED li
    /\ UNCHANGED <<lj, count, crashed>>
    /\ UNCH_main /\ UNCH_bufs /\ UNCH_ghost

\* rescale_image, one iteration of the loop over i (a whole row of j)
rescale_image(t) ==
    /\ ~crashed /\ pc[t] = "rescale" /\ in0.failed # "data"
    /\ LET i == li[t]
           row == {i * new_image.y + j : j \in 0 .. (new_image.y - 1)}
       IN  /\ new_image' =
                 [new_image EXCEPT !.data =
                     [o \in DOMAIN new_image.data |->
                         IF o \in row
                         THEN sample_bicubic(image, i, o - i * new_image.y,
                                             new_image.x, new_image.y)
                         ELSE new_image.data[o]]]
           /\ wRescale' = [o \in DOMAIN wRescale |->
                             IF o \in row THEN wRescale[o] \cup {t}
                             ELSE wRescale[o]]
           /\ li' = [li EXCEPT ![t] = i + 1]
           /\ pc' = [pc EXCEPT ![t] =
                        IF InRescale(t, i + 1) THEN "rescale" ELSE "wait1"]
    /\ UNCHANGED <<image, scaled_image, grid, lj, count, crashed,
                   wGrid, wMarch, in0>>
    /\ UNCH_main

\* a barrier that lets the caller through however many workers have arrived
barrier_wait_open(t) ==
    /\ ~crashed /\ pc[t] \in {"wait1", "wait2", "wait3"}
    /\ pc' = [pc EXCEPT ![t] = AfterBarrier(pc[t], t)]
    /\ li' = [li EXCEPT ![t] = Start(t, P)]
    /\ lj' = [lj EXCEPT ![t] = 0]
    /\ UNCHANGED <<count, crashed>>
    /\ UNCH_main /\ UNCH_bufs /\ UNCH_ghost

\* pthread_barrier_wait(im->barrier), lines 254, 256 and 258
barrier_wait(t) ==
    /\ ~crashed /\ pc[t] \in {"wait1", "wait2", "wait3"}
    /\ IF count + 1 < N
       THEN /\ count' = count + 1
            /\ pc' = [pc EXCEPT ![t] = Block(pc[t])]
            /\ UNCHANGED <<li, lj>>
       ELSE /\ count' = 0
            /\ pc' = [u \in Threads |->
                        IF u = t \/ Blocked(pc[u]) THEN AfterBarrier(pc[u], u)
                        ELSE pc[u]]
            /\ li' = [u \in Threads |->
                        IF u = t \/ Blocked(pc[u]) THEN Start(u, P)
                        ELSE li[u]]
            /\ lj' = [u \in Threads |->
                        IF u = t \/ Blocked(pc[u]) THEN 0 ELSE lj[u]]
    /\ UNCHANGED crashed
    /\ UNCH_main /\ UNCH_bufs /\ UNCH_ghost

\* a wild load or store that the hardware traps: the process dies
fault ==
    /\ crashed' = TRUE
    /\ UNCHANGED <<pc, li, lj, count>>
    /\ UNCH_main /\ UNCH_bufs /\ UNCH_ghost

\* lines 326-334 when imagine or threads is NULL (lines 297 and 299 do not
\* test malloc): the first store through the pointer traps
main_create_fault ==
    /\ ~crashed /\ mainpc = "create" /\ ci < N
    /\ in0.failed \in {"imagine", "threads"}
    /\ fault

\* rescale_image when new_image->data is NULL (line 238 tests new_image
\* again, not the pixel buffer): the stores of row i go through NULL; row 0
\* is the null page and traps, a later row may trap or land in foreign memory
rescale_null(t) ==
    /\ ~crashed /\ pc[t] = "rescale" /\ in0.failed = "data"
    /\ LET i == li[t]
           row == {i * new_image.y + j : j \in 0 .. (new_image.y - 1)}
       IN  /\ wRescale' = [o \in DOMAIN wRescale |->
                             IF o \in row THEN wRescale[o] \cup {t}
                             ELSE wRescale[o]]
           /\ \/ /\ crashed' = TRUE
                 /\ UNCHANGED <<pc, li>>
              \/ /\ i > 0
                 /\ crashed' = FALSE
                 /\ li' = [li EXCEPT ![t] = i + 1]
                 /\ pc' = [pc EXCEPT ![t] =
                              IF InRescale(t, i + 1) THEN "rescale"
                              ELSE "wait1"]
    /\ UNCHANGED <<image, new_image, scaled_image, grid, lj, count,
                   wGrid, wMarch, in0>>
    /\ UNCH_main

\* ---- sample_grid --------------------------------------------------------
\* lines 90-107, one iteration of the inner loop: cell (i, j) of the bulk
sample_bulk(t) ==
    /\ ~crashed /\ pc[t] = "bulk"
    /\ InBulk(t, li[t], lj[t])
    /\ LET i == li[t]
           j == lj[t]
           curr_pixel == Work.data[i * STEP * Work.y + j * STEP]
       IN  /\ grid' = [grid EXCEPT ![i][j] = Classify(curr_pixel)]
           /\ wGrid' = [wGrid EXCEPT ![i][j] = @ \cup {t}]
           /\ IF j + 1 < Q
              THEN lj' = [lj EXCEPT ![t] = j + 1] /\ UNCHANGED li
              ELSE lj' = [lj EXCEPT ![t] = 0] /\ li' = [li EXCEPT ![t] = i + 1]
    /\ UNCHANGED <<image, new_image, scaled_image, pc, count, crashed,
                   wRescale, wMarch, in0>>
    /\ UNCH_main

\* line 108 once the bulk loop has ended: grid[p][q] = 0, by every worker
sample_corner(t) ==
    /\ ~crashed /\ pc[t] = "bulk"
    /\ ~InBulk(t, li[t], lj[t])
    /\ grid' = [grid EXCEPT ![P][Q] = 0]
    /\ wGrid' = [wGrid EXCEPT ![P][Q] = @ \cup {t}]
    /\ pc' = [pc EXCEPT ![t] = AfterCorner(t)]
    /\ li' = [li EXCEPT ![t] = Start(t, P)]
    /\ lj' = [lj EXCEPT ![t] = Start(t, Q)]
    /\ UNCHANGED <<image, new_image, scaled_image, count, crashed,
                   wRescale, wMarch, in0>>
    /\ UNCH_main

\* the offset line 118 reads for grid[i][q]
RightOffset(img, i) == i * STEP * img.y + img.x - 1

\* the offset line 137 reads for grid[p][j]
BottomOffset(img, j) == (img.x - 1) * img.y + j * STEP

\* lines 116-130, one iteration: the right-edge cell grid[i][q]; a load past
\* the end of the buffer yields whatever lies there
sample_right(t) ==
    /\ ~crashed /\ pc[t] = "right"
    /\ LET i == li[t]
           off == RightOffset(Work, i)
       IN  /\ \E curr_pixel \in
                  (IF off \in DOMAIN Work.data THEN {Work.data[off]}
                   ELSE WildPixels) :
                 grid' = [grid EXCEPT ![i][Q] = Classify(curr_pixel)]
           /\ wGrid' = [wGrid EXCEPT ![i][Q] = @ \cup {t}]
           /\ li' = [li EXCEPT ![t] = i + 1]
           /\ pc' = [pc EXCEPT ![t] =
                        IF InRows(t, i + 1) THEN "right" ELSE AfterRight(t)]
    /\ UNCHANGED <<image, new_image, scaled_image, lj, count, crashed,
                   wRescale, wMarch, in0>>
    /\ UNCH_main

\* line 118 with an offset past the end of the buffer, when the load traps
sample_right_fault(t) ==
    /\ ~crashed /\ pc[t] = "right"
    /\ RightOffset(Work, li[t]) \notin DOMAIN Work.data
    /\ fault

\* lines 135-149, one iteration: the bottom-edge cell grid[p][j]
sample_bottom(t) ==
    /\ ~crashed /\ pc[t] = "bottom"
    /\ LET j == lj[t]
           curr_pixel == Work.data[BottomOffset(Work, j)]
       IN  /\ grid' = [grid EXCEPT ![P][j] = Classify(curr_pixel)]
           /\ wGrid' = [wGrid EXCEPT ![P][j] = @ \cup {t}]
           /\ lj' = [lj EXCEPT ![t] = j + 1]
           /\ pc' = [pc EXCEPT ![t] =
                        IF InCols(t, j + 1) THEN "bottom" ELSE "wait2"]
    /\ UNCHANGED <<image, new_image, scaled_image, li, count, crashed,
                   wRescale, wMarch, in0>>
    /\ UNCH_main

\* ---- march --------------------------------------------------------------
\* lines 166-173, one iteration of the inner loop: the tile of cell (i, j);
\* a lookup past the end of the table yields whatever lies there
march(t) ==
    /\ ~crashed /\ pc[t] = "march"
    /\ LET i == li[t]
           j == lj[t]
           k == ConfigIndex(grid, i, j)
           ni == IF j + 1 < Q THEN i ELSE i + 1
           nj == IF j + 1 < Q THEN j + 1 ELSE 0
       IN  /\ \E tile \in
                  (IF k < CONTOUR_CONFIG_COUNT THEN {contour_map[k]}
                   ELSE {WildTile(px) : px \in WildPixels}) :
                 SetWork(update_image(Work, tile, i * STEP, j * STEP))
           /\ wMarch' =
                 [o \in DOMAIN wMarch |->
                     IF o \in TileOffsets(Work, contour_map[0],
                                          i * STEP, j * STEP)
                     THEN wMarch[o] \cup {t} ELSE wMarch[o]]
           /\ li' = [li EXCEPT ![t] = ni]
           /\ lj' = [lj EXCEPT ![t] = nj]
           /\ pc' = [pc EXCEPT ![t] =
                        IF InBulk(t, ni, nj) THEN "march" ELSE "wait3"]
    /\ UNCHANGED <<scaled_image, grid, count, crashed, wGrid, wRescale, in0>>
    /\ UNCH_main

\* line 171 with k past the end of the table, when the wild pointer traps
march_fault(t) ==
    /\ ~crashed /\ pc[t] = "march"
    /\ ConfigIndex(grid, li[t], lj[t]) >= CONTOUR_CONFIG_COUNT
    /\ fault

\* ---- the program --------------------------------------------------------
Next ==
    \/ main_create
    \/ main_join
    \/ main_create_fault
    \/ \E t \in Threads : apeleaza(t)
    \/ \E t \in Threads : rescale_image(t)
    \/ \E t \in Threads : rescale_null(t)
    \/ \E t \in Threads : barrier_wait(t)
    \/ \E t \in Threads : sample_bulk(t)
    \/ \E t \in Threads : sample_corner(t)
    \/ \E t \in Threads : sample_right(t)
    \/ \E t \in Threads : sample_right_fault(t)
    \/ \E t \in Threads : sample_bottom(t)
    \/ \E t \in Threads : march(t)
    \/ \E t \in Threads : march_fault(t)

Spec == Init /\ [][Next]_vars

TypeOK ==
    /\ N \in 1 .. MaxN
    /\ count \in 0 .. (N - 1)
    /\ \A i \in DOMAIN grid : \A j \in DOMAIN grid[i] : grid[i][j] \in 0 .. 255

\* ---- stages ---------------------------------------------------------------
BeforeSample == {"idle", "start", "rescale", "wait1", "blocked1"}
InSample == {"bulk", "right", "bottom"}
BeforeMarch == BeforeSample \cup InSample \cup {"wait2", "blocked2"}

\* every worker is past the barrier that follows sample_grid
AllPastSample == \A t \in Threads : pc[t] \notin BeforeMarch

\* N divides both p and q
Divides == P % N = 0 /\ Q % N = 0

\* C1: no worker is in (or past) sample_grid while another worker has not
\* finished its rescale partition, and no worker is in (or past) march while
\* another worker has not finished its whole sample_grid call.
C1_StageOrder ==
    \A t \in Threads : \A u \in Threads :
        /\ pc[t] \notin BeforeSample => pc[u] \notin {"idle", "start", "rescale"}
        /\ pc[t] \notin BeforeMarch => pc[u] \notin (BeforeSample \cup InSample)

\* a worker is marching while a peer, which sampled cells of its own, has
\* already finished marching
C1_Witness ==
    /\ N >= 2
    /\ \E t \in Threads : \E u \in Threads :
        /\ pc[t] = "march" /\ pc[u] = "blocked3"
        /\ \E i \in DOMAIN wGrid : \E j \in DOMAIN wGrid[i] : u \in wGrid[i][j]

\* C2: within one stage no grid cell and no working pixel is written by two
\* different workers.
C2_WritesDisjoint ==
    /\ \A i \in DOMAIN wGrid : \A j \in DOMAIN wGrid[i] :
          Cardinality(wGrid[i][j]) <= 1
    /\ \A o \in DOMAIN wRescale : Cardinality(wRescale[o]) <= 1
    /\ \A o \in DOMAIN wMarch : Cardinality(wMarch[o]) <= 1

\* C3: when N divides p and q and every worker has passed the barrier after
\* sampling, every one of the (p+1)*(q+1) cells was assigned by sample_grid
\* and holds 0 or 1.
C3_GridComplete ==
    (AllPastSample /\ Divides) =>
        \A i \in 0 .. P : \A j \in 0 .. Q :
            wGrid[i][j] # {} /\ grid[i][j] \in {0, 1}

\* the grid started as bytes that are neither 0 nor 1, two or more workers
\* shared the sampling, and all of them are past the barrier
C3_Witness ==
    /\ AllPastSample /\ Divides /\ N >= 2 /\ in0.gb = 3
    /\ P >= 2 /\ Q >= 2

\* C4: whenever some worker is in (or past) march, every grid entry has been
\* assigned by some worker's sample_grid, for every N.
C4_GridPopulatedBeforeMarch ==
    (\E t \in Threads : pc[t] \notin BeforeMarch) =>
        \A i \in 0 .. P : \A j \in 0 .. Q : wGrid[i][j] # {}

\* ---- expected results ----------------------------------------------------
\* the working image once stage 1 is over, had n workers run it: the source
\* itself, or the target buffer with the rows of the n shares rescaled and
\* the remaining rows as malloc left them
Stage1Image(n) ==
    IF in0.image.x <= RESCALE_X /\ in0.image.y <= RESCALE_Y
    THEN in0.image
    ELSE [x |-> RESCALE_X, y |-> RESCALE_Y,
          data |-> [o \in 0 .. (RESCALE_X * RESCALE_Y - 1) |->
                      IF o \div RESCALE_Y < n * (RESCALE_X \div n)
                      THEN sample_bicubic(in0.image, o \div RESCALE_Y,
                                          o % RESCALE_Y, RESCALE_X, RESCALE_Y)
                      ELSE in0.gp]]

\* a pixel of the stage-1 image; an offset outside it stands for one fixed
\* content of the memory behind the buffer
Load(img, off) == IF off \in DOMAIN img.data THEN img.data[off] ELSE Black

\* the grid n workers leave behind: shares sampled, the rest as allocated
RefGrid(n) ==
    LET W == Stage1Image(n)
    IN  [i \in 0 .. P |-> [j \in 0 .. Q |->
            IF i = P /\ j = Q THEN 0
            ELSE IF i = P
                 THEN IF j < n * (Q \div n)
                      THEN Classify(W.data[(W.x - 1) * W.y + j * STEP])
                      ELSE in0.gb
            ELSE IF i >= n * (P \div n) THEN in0.gb
            ELSE IF j = Q THEN Classify(Load(W, i * STEP * W.y + W.x - 1))
            ELSE Classify(W.data[i * STEP * W.y + j * STEP])]]

\* the image n workers leave behind: the tile of every marched cell, and the
\* stage-1 pixel everywhere else
RefFinal(n) ==
    LET W == Stage1Image(n)
        G == RefGrid(n)
    IN  [o \in DOMAIN W.data |->
            LET r == o \div W.y
                c == o % W.y
                i == r \div STEP
                j == c \div STEP
                k == 8 * G[i][j] + 4 * G[i][j + 1]
                     + 2 * G[i + 1][j + 1] + G[i + 1][j]
            IN  IF i < n * (P \div n) /\ j < Q
                THEN IF k < CONTOUR_CONFIG_COUNT
                     THEN contour_map[k].data[STEP * (r % STEP) + (c % STEP)]
                     ELSE Black
                ELSE W.data[o]]

\* cell (i, j) of the working image shows tile k
TileAt(i, j, k) ==
    \A a \in 0 .. (STEP - 1) : \A b \in 0 .. (STEP - 1) :
        Work.data[(i * STEP + a) * Work.y + j * STEP + b]
            = contour_map[k].data[STEP * a + b]

\* every pixel of the stage-1 image is at or below / above the threshold
AllDark == \A o \in DOMAIN Stage1Image(N).data :
              Classify(Stage1Image(N).data[o]) = 1
AllLight == \A o \in DOMAIN Stage1Image(N).data :
              Classify(Stage1Image(N).data[o]) = 0

\* C5: when N divides p, q and (when rescaling) the target row count, the
\* final working image is the one a single worker produces.
C5_ThreadCountInvariant ==
    (mainpc = "done" /\ Divides
        /\ (scaled_image # "image" => RESCALE_X % N = 0))
    => Work.data = RefFinal(1)

\* C6: for fixed inputs and N, the final grid and the final working image are
\* the same whatever the interleaving.
C6_ScheduleIndependent ==
    mainpc = "done" => (grid = RefGrid(N) /\ Work.data = RefFinal(N))

\* ---- fair scheduling ----------------------------------------------------
\* the steps of worker t that the scheduler owes it
Worker(t) ==
    /\ t \in Threads
    /\ \/ apeleaza(t) \/ rescale_image(t) \/ barrier_wait(t)
       \/ sample_bulk(t) \/ sample_corner(t) \/ sample_right(t)
       \/ sample_bottom(t) \/ march(t)

FairSpec ==
    /\ Spec
    /\ WF_vars(main_create) /\ WF_vars(main_join)
    /\ \A t \in 0 .. (MaxN - 1) : WF_vars(Worker(t))

\* C7: under fair scheduling all N workers pass the three barriers and
\* finish, and the joins of main complete.
C7_AllFinish == <>(mainpc = "done" /\ \A t \in Threads : pc[t] = "done")

C9_AllZerosTile0 ==
    (mainpc = "done" /\ Divides /\ AllLight) =>
        /\ \A i \in 0 .. P : \A j \in 0 .. Q : grid[i][j] = 0
        /\ \A i \in 0 .. (P - 1) : \A j \in 0 .. (Q - 1) : TileAt(i, j, 0)

\* C10: while no tile has been stamped, every assigned right-edge cell
\* grid[i][q] classifies the pixel at row i*STEP of the image's last column
\* (offset i*STEP*y + y - 1), and every assigned bottom-edge cell grid[p][j]
\* the pixel at column j*STEP of the image's last row.
C10_TrueLastColumnAndRow ==
    (\A t \in Threads : pc[t] \in BeforeMarch) =>
        /\ \A i \in 0 .. (P - 1) :
              wGrid[i][Q] # {} =>
                 grid[i][Q] = Classify(Work.data[i * STEP * Work.y
                                                 + (Work.y - 1)])
        /\ \A j \in 0 .. (Q - 1) :
              wGrid[P][j] # {} =>
                 grid[P][j] = Classify(Work.data[(Work.x - 1) * Work.y
                                                 + j * STEP])


\* ---- the source as working image ----------------------------------------
\* C11: the working image is the source buffer exactly when the source fits
\* the target resolution in both dimensions; then no worker is ever in the
\* rescale loop or writes a pixel in stage 1, and every pixel keeps its source
\* value until march; otherwise every worker past stage 1 has written the
\* rows of its share.
C11_RescaleIffTooLarge ==
    /\ (scaled_image = "image") <=>
          (in0.image.x <= RESCALE_X /\ in0.image.y <= RESCALE_Y)
    /\ scaled_image = "image" =>
          /\ \A t \in Threads : pc[t] # "rescale"
          /\ \A o \in DOMAIN wRescale : wRescale[o] = {}
          /\ (\A t \in Threads : pc[t] \in BeforeMarch) => image = in0.image
    /\ scaled_image # "image" =>
          \A t \in Threads :
              pc[t] \notin {"idle", "start", "rescale"} =>
                 \A i \in (t * (RESCALE_X \div N))
                          .. ((t + 1) * (RESCALE_X \div N) - 1) :
                    \A j \in 0 .. (RESCALE_Y - 1) :
                       t \in wRescale[i * RESCALE_Y + j]

\* the source is the working image, two or more workers share the work, one
\* has finished sampling and every pixel still has its source value
C11_Witness ==
    /\ scaled_image = "image" /\ N >= 2
    /\ \E t \in Threads : pc[t] = "blocked2"
    /\ image = in0.image


\* ---- allocation failures -------------------------------------------------
\* C12: when an allocation failed, the process has exited with the diagnostic
\* before any worker was created: main is at the exit, nothing trapped, every
\* worker is idle and no worker has stored through the rescaled pixel buffer.
C12_AllocFailureAborts ==
    in0.failed # "none" =>
       /\ mainpc = "aborted"
       /\ ~crashed
       /\ \A t \in Threads : pc[t] = "idle"
       /\ \A o \in DOMAIN wRescale : wRescale[o] = {}


\* ---- interior samples ----------------------------------------------------
\* C13: a grid cell that a worker stored holds 0 or 1; until the first stamp,
\* every stored interior cell (i, j), i < p, j < q, holds 1 when the channel
\* average of pixel (i*STEP, j*STEP), rounded down, is at most SIGMA and 0
\* otherwise; and once sampling is over every interior cell of a worker's
\* row share has been stored.
C13_InteriorSample ==
    /\ \A i \in 0 .. P : \A j \in 0 .. Q :
          wGrid[i][j] # {} => grid[i][j] \in {0, 1}
    /\ (\A t \in Threads : pc[t] \in BeforeMarch) =>
          \A i \in 0 .. (P - 1) : \A j \in 0 .. (Q - 1) :
             wGrid[i][j] # {} =>
                LET px == Work.data[i * STEP * Work.y + j * STEP]
                IN  grid[i][j] =
                       IF (px[1] + px[2] + px[3]) \div 3 <= SIGMA THEN 1 ELSE 0
    /\ (\A t \in Threads : pc[t] \notin (BeforeSample \cup InSample)) =>
          \A i \in 0 .. (N * (P \div N) - 1) : \A j \in 0 .. (Q - 1) :
             wGrid[i][j] # {}

\* two or more workers have all finished sampling; the pixel at the origin
\* has average exactly SIGMA and gave 1, another interior sample gave 0
C13_Witness ==
    /\ N >= 2
    /\ \A t \in Threads : pc[t] \in {"wait2", "blocked2"}
    /\ Work.data[0] = Edge1 /\ wGrid[0][0] # {} /\ grid[0][0] = 1
    /\ \E i \in 0 .. (P - 1) : \E j \in 0 .. (Q - 1) :
          wGrid[i][j] # {} /\ grid[i][j] = 0


\* ---- stamping ------------------------------------------------------------
\* C14: when the pipeline has ended, every cell (i, j) of a worker's march
\* share, j < q, has a configuration index k = 8*grid[i][j] + 4*grid[i][j+1]
\* + 2*grid[i+1][j+1] + grid[i+1][j] that names a tile of the table, and
\* every pixel (i*STEP + a, j*STEP + b) equals pixel (a, b) of that tile.
C14_StampedTileIsIndexed ==
    mainpc = "done" =>
       \A i \in 0 .. (N * (P \div N) - 1) : \A j \in 0 .. (Q - 1) :
          LET k == 8 * grid[i][j] + 4 * grid[i][j + 1]
                   + 2 * grid[i + 1][j + 1] + grid[i + 1][j]
          IN  k \in 0 .. (CONTOUR_CONFIG_COUNT - 1) /\ TileAt(i, j, k)

\* ---- the remainder -------------------------------------------------------
\* C15: no worker ever stores a grid cell of a row i with N*(p/N) <= i < p
\* or a bottom-edge cell grid[p][j] with N*(q/N) <= j < q: these keep what
\* the allocation left; and no tile is ever stamped on a pixel row at or past
\* N*(p/N)*STEP: those pixels keep their value from the end of stage 1.
C15_RemainderUntouched ==
    /\ \A i \in (N * (P \div N)) .. (P - 1) : \A j \in 0 .. Q :
          wGrid[i][j] = {} /\ grid[i][j] = in0.gb
    /\ \A j \in (N * (Q \div N)) .. (Q - 1) :
          wGrid[P][j] = {} /\ grid[P][j] = in0.gb
    /\ \A o \in DOMAIN wMarch :
          o \div Work.y >= N * (P \div N) * STEP =>
             /\ wMarch[o] = {}
             /\ (\A t \in Threads : pc[t] \notin BeforeSample) =>
                   Work.data[o] = Stage1Image(N).data[o]

\* the pipeline has ended with N dividing neither p nor q, every worker
\* having had at least one row
C15_Witness ==
    /\ mainpc = "done"
    /\ P % N # 0 /\ Q % N # 0 /\ P \div N >= 1
    /\ in0.gb = 3

\* ---- the configuration index ---------------------------------------------
\* C16: whenever a worker is about to compute the index of cell (i, j), each
\* of the four grid cells it reads was stored during sampling and holds 0 or
\* 1, so the index is within the tile table.
C16_IndexInTable ==
    \A t \in Threads :
       pc[t] = "march" =>
          /\ \A c \in {<<li[t], lj[t]>>, <<li[t], lj[t] + 1>>,
                       <<li[t] + 1, lj[t] + 1>>, <<li[t] + 1, lj[t]>>} :
                wGrid[c[1]][c[2]] # {} /\ grid[c[1]][c[2]] \in {0, 1}
          /\ ConfigIndex(grid, li[t], lj[t]) < CONTOUR_CONFIG_COUNT


\* ---- bounds of the accesses ----------------------------------------------
\* C17: every index a worker is about to use lies inside the buffer it
\* indexes: the pixel offsets of the three sampling loops and of update_image
\* inside the working image, the cell indices of sample_grid and march
\* inside the (p+1) x (q+1) grid.
C17_IndicesInBounds ==
    LET Pixels == 0 .. (Work.x * Work.y - 1)
    IN  \A t \in Threads :
           /\ pc[t] = "bulk" /\ InBulk(t, li[t], lj[t]) =>
                 /\ li[t] \in 0 .. P /\ lj[t] \in 0 .. Q
                 /\ li[t] * STEP * Work.y + lj[t] * STEP \in Pixels
           /\ pc[t] = "right" =>
                 /\ li[t] \in 0 .. P
                 /\ RightOffset(Work, li[t]) \in Pixels
           /\ pc[t] = "bottom" =>
                 /\ lj[t] \in 0 .. Q
                 /\ BottomOffset(Work, lj[t]) \in Pixels
           /\ pc[t] = "march" =>
                 /\ li[t] + 1 \in 0 .. P /\ lj[t] + 1 \in 0 .. Q
                 /\ TileOffsets(Work, contour_map[0],
                                li[t] * STEP, lj[t] * STEP) \subseteq Pixels


\* ---- what the samples see ------------------------------------------------
\* C18: while any worker is sampling, no tile has been stamped on any pixel
\* and the working image is the image stage 1 left: a sample never observes
\* a pixel that a stamp has overwritten.
C18_SamplesSeeStage1 ==
    (\E t \in Threads : pc[t] \in InSample) =>
       /\ \A o \in DOMAIN wMarch : wMarch[o] = {}
       /\ Work = Stage1Image(N)

\* one worker still reads last-row pixels while another has already finished
\* sampling and waits at the barrier before march
C18_Witness ==
    /\ N >= 2
    /\ \E t \in Threads : pc[t] = "bottom"
    /\ \E u \in Threads : pc[u] = "blocked2"


\* ---- the rescaled image before sampling ---------------------------------
\* C19: when the image was rescaled, every pixel of the new working image
\* that a worker is about to sample has been stored by some worker's rescale
\* share.
C19_SampledPixelsRescaled ==
    scaled_image # "image" =>
       \A t \in Threads :
          /\ pc[t] = "bulk" /\ InBulk(t, li[t], lj[t]) =>
                wRescale[li[t] * STEP * Work.y + lj[t] * STEP] # {}
          /\ pc[t] = "right" /\ RightOffset(Work, li[t]) \in DOMAIN wRescale =>
                wRescale[RightOffset(Work, li[t])] # {}
          /\ pc[t] = "bottom" =>
                wRescale[BottomOffset(Work, lj[t])] # {}


\* ---- readers and writers of a stage --------------------------------------
\* C20: a step stores to a shared buffer only while no worker is in a stage
\* that reads it.  The source image changes only when it is the working
\* image, by a marching worker, with nobody sampling; the rescaled image
\* changes only by a rescaling or a marching worker, with nobody sampling;
\* the grid changes only by a sampling worker, with nobody marching; and the
\* rescale loop, which reads the source, runs only when the working image is
\* another buffer.  The tile table is a fixed value that no step changes.
C20_NoReadOfConcurrentWrite ==
    [][LET Rescaling == \E t \in Threads : pc[t] = "rescale"
           Sampling  == \E t \in Threads : pc[t] \in InSample
           Marching  == \E t \in Threads : pc[t] = "march"
       IN  /\ image' # image =>
                 scaled_image = "image" /\ Marching /\ ~Sampling
           /\ new_image' # new_image =>
                 /\ scaled_image # "image"
                 /\ \/ Rescaling /\ ~Sampling /\ ~Marching
                    \/ Marching /\ ~Sampling /\ ~Rescaling
           /\ grid' # grid => Sampling /\ ~Marching
           /\ Rescaling => scaled_image # "image"]_vars

\* two workers march at once: worker 1 has stamped a tile while worker 0 is
\* about to read, for its last row, grid cells that worker 1 sampled
C20_Witness ==
    /\ N >= 2
    /\ pc[0] = "march" /\ pc[1] = "march"
    /\ li[0] + 1 = Start(1, P)
    /\ 1 \in wGrid[li[0] + 1][lj[0]]
    /\ \E o \in DOMAIN wMarch : 1 \in wMarch[o]

====
